---------------------------- MODULE Spec2Model ----------------------------
(* A model of go-task-manager: the credential functions (main.go:181-189,  *)
(* bcrypt), the token service and the identity-binding middleware          *)
(* (auth.go), and the HTTP handlers of main.go over the users and tasks    *)
(* tables.                                                                 *)
(*                                                                         *)
(* Strings that are hashed (passwords, bcrypt credentials) are sequences   *)
(* of byte values, so that length limits, NUL bytes and the bcrypt key     *)
(* expansion are computed as the library computes them.                    *)
EXTENDS Integers, Sequences, FiniteSets, TLC

VARIABLES
    rng,      \* number of salts drawn from crypto/rand so far
    hp,       \* the last hashPassword call: [plain, hash, err]
    hpPrev,   \* the hashPassword call before it
    ck        \* the last checkPassword call: [plain, hash, result]

VARIABLES
    jwtEnv,   \* the value of the environment variable JWT_SECRET ("" if unset)
    users,    \* the users table
    userSeq,  \* the next value of the users table's id sequence
    regPlain, \* history: the plaintext each persisted user registered with
    tasks,    \* the tasks table
    taskSeq,  \* the next value of the tasks table's id sequence
    now,      \* the clock, time.Now()
    issued,   \* history: the tokens login has returned, each with the user
              \* who logged in
    last,     \* the last HTTP request and the response to it
    ledger    \* history: what the clients know of their tasks from the
              \* responses to their create, update and delete requests

VARIABLES
    serving,  \* main has reached r.Run: requests are being served
    calls     \* for each request thread, the call it is in: an issue or
              \* verify call, or a register request

credVars == <<rng, hp, hpPrev, ck>>

threadVars == <<serving, calls>>

dbVars == <<users, userSeq, regPlain, tasks, taskSeq>>

serverVars == <<jwtEnv, users, userSeq, regPlain, tasks, taskSeq, now, issued,
                last, ledger, serving, calls>>

vars == <<rng, hp, hpPrev, ck, jwtEnv, users, userSeq, regPlain, tasks,
          taskSeq, now, issued, last, ledger, serving, calls>>

---------------------------------------------------------------------------
(* Bounds of the model.                                                    *)

\* crypto/rand yields at most this many salts in a run.
MaxSalts == 2

\* The clock runs from 0 to MaxTime.
MaxTime == 2

\* At most this many tasks are ever created while users register and log
\* in.
MaxTasks == 1

\* At most this many tasks are ever created by the clients that only work
\* on tasks.
MaxListed == 2

\* Clients keep at most this many tokens.
MaxTokens == 2

\* The number of request threads that call the token service.
MaxThreads == 2

---------------------------------------------------------------------------
(* Byte strings.                                                           *)

NUL == 0
CharA == 97
CharB == 98
Dollar == 36

Rep(c, n) == [i \in 1..n |-> c]

EmptyString == << >>

---------------------------------------------------------------------------
(* golang.org/x/crypto/bcrypt, as main.go calls it.                        *)

\* bcrypt reads at most 72 bytes of key material (18 P-array words).
BcryptKeyBytes == 72

\* hashPassword passes the cost 14.
BcryptCost == 14

BcryptMinCost == 4
BcryptMaxCost == 31

\* The encoded credential: "$2a$" cost "$" salt digest.
BcryptHashSize == 3 + BcryptKeyBytes

\* bcrypt appends a NUL to the password and blowfish's ExpandKey reads the
\* result cyclically until 72 bytes are consumed.
ExpandKey(password) ==
    LET ckey == Append(password, NUL)
    IN  [i \in 1..BcryptKeyBytes |-> ckey[((i - 1) % Len(ckey)) + 1]]

\* The digest is an ideal one-way function of the expanded key and the
\* salt: distinct (key, salt) pairs give distinct digests.
BcryptDigest(key, salt) == [i \in 1..BcryptKeyBytes |-> 256 * salt + key[i]]

bcryptHash(password, cost, salt) ==
    <<Dollar, cost, salt>> \o BcryptDigest(ExpandKey(password), salt)

\* bcrypt.GenerateFromPassword: rejects a password of more than 72 bytes,
\* fails when crypto/rand fails, and otherwise hashes under a new salt.
GenerateFromPassword(password, cost, salt, randOK) ==
    IF Len(password) > BcryptKeyBytes
    THEN [bytes |-> EmptyString, err |-> "ErrPasswordTooLong"]
    ELSE IF ~randOK
    THEN [bytes |-> EmptyString, err |-> "rand"]
    ELSE [bytes |-> bcryptHash(password, cost, salt), err |-> "nil"]

\* bcrypt.CompareHashAndPassword: parses the credential (newFromHash), then
\* recomputes the hash of the password under the credential's cost and salt.
CompareHashAndPassword(hashed, password) ==
    IF Len(hashed) < BcryptHashSize THEN "ErrHashTooShort"
    ELSE IF hashed[1] # Dollar THEN "InvalidHashPrefixError"
    ELSE IF hashed[2] < BcryptMinCost \/ hashed[2] > BcryptMaxCost
    THEN "InvalidCostError"
    ELSE IF bcryptHash(password, hashed[2], hashed[3]) = hashed THEN "nil"
    ELSE "ErrMismatchedHashAndPassword"

---------------------------------------------------------------------------
(* main.go:181-189.                                                        *)

\* A hashPassword that hashes every password under one fixed salt.
hashPasswordFixedSalt(password, salt, randOK) ==
    LET r == GenerateFromPassword(password, BcryptCost, 1, randOK)
    IN  [hash |-> r.bytes, err |-> r.err]

hashPassword(password, salt, randOK) ==
    LET r == GenerateFromPassword(password, BcryptCost, salt, randOK)
    IN  [hash |-> r.bytes, err |-> r.err]

\* A checkPassword that passes its arguments to bcrypt in the wrong order.
checkPasswordSwapped(password, hash) ==
    CompareHashAndPassword(password, hash) = "nil"

checkPassword(password, hash) ==
    CompareHashAndPassword(hash, password) = "nil"

---------------------------------------------------------------------------
(* Configuration (main.go:174-179) and the signing secret.                 *)

\* A getEnv that returns the default whatever the variable holds.
getEnvDefaultOnly(value, defaultValue) == defaultValue

\* value is os.Getenv(key): "" for a variable that is unset or empty.
getEnv(value, defaultValue) == IF value # "" THEN value ELSE defaultValue

\* The fallback secret of getJWTSecret.
DefaultJWTSecret == "default-secret"

getJWTSecret == getEnv(jwtEnv, DefaultJWTSecret)

---------------------------------------------------------------------------
(* The token service: generateToken and the verification the middleware    *)
(* runs.  A token is its three segments: whether the string parses as      *)
(* header.payload.signature, the payload's claims, and the signature.      *)

\* The token lifetime, in clock ticks.
TokenTTL == 1

\* The sub of a payload that carries no subject.
NoSub == 0

\* The signature of a payload under a key: an ideal MAC, equal only for the
\* same payload and the same key.  last is the signature's last character
\* (0 as signed).
Sign(sub, iat, exp, key) ==
    [sub |-> sub, iat |-> iat, exp |-> exp, key |-> key, last |-> 0]

MakeToken(sub, iat, exp, key) ==
    [parts |-> 3, sub |-> sub, iat |-> iat, exp |-> exp,
     sig |-> Sign(sub, iat, exp, key)]

NoToken ==
    [parts |-> 0, sub |-> NoSub, iat |-> 0, exp |-> 0,
     sig |-> Sign(NoSub, 0, 0, "")]

\* issue: binds userID, the current time and the expiry, and signs.  It
\* fails when the secret is empty or the signer returns an error.
generateToken(userID, secret, t, signerOK) ==
    IF secret = "" \/ ~signerOK
    THEN [token |-> NoToken, err |-> "SigningFailure"]
    ELSE [token |-> MakeToken(userID, t, t + TokenTTL, secret), err |-> "nil"]

\* A verify that reads the payload without checking the signature.
validateTokenUnverified(tok, secret, t) ==
    IF tok.parts # 3
    THEN [userID |-> 0, err |-> "MalformedToken"]
    ELSE IF t > tok.exp
    THEN [userID |-> 0, err |-> "TokenExpired"]
    ELSE IF tok.sub = NoSub
    THEN [userID |-> 0, err |-> "MissingIdentity"]
    ELSE [userID |-> tok.sub, err |-> "nil"]

\* A verify that checks the expiry before the signature.
validateTokenExpiryFirst(tok, secret, t) ==
    IF tok.parts # 3
    THEN [userID |-> 0, err |-> "MalformedToken"]
    ELSE IF t > tok.exp
    THEN [userID |-> 0, err |-> "TokenExpired"]
    ELSE IF tok.sig # Sign(tok.sub, tok.iat, tok.exp, secret)
    THEN [userID |-> 0, err |-> "InvalidSignature"]
    ELSE IF tok.sub = NoSub
    THEN [userID |-> 0, err |-> "MissingIdentity"]
    ELSE [userID |-> tok.sub, err |-> "nil"]

\* verify: parse, signature, expiry, identity, in this order.
validateToken(tok, secret, t) ==
    IF tok.parts # 3
    THEN [userID |-> 0, err |-> "MalformedToken"]
    ELSE IF tok.sig # Sign(tok.sub, tok.iat, tok.exp, secret)
    THEN [userID |-> 0, err |-> "InvalidSignature"]
    ELSE IF t > tok.exp
    THEN [userID |-> 0, err |-> "TokenExpired"]
    ELSE IF tok.sub = NoSub
    THEN [userID |-> 0, err |-> "MissingIdentity"]
    ELSE [userID |-> tok.sub, err |-> "nil"]

\* The Authorization header of a request.
NoHeader == [present |-> FALSE, token |-> NoToken]
Bearer(tok) == [present |-> TRUE, token |-> tok]

\* authMiddleware: a missing header or a failed verification aborts the
\* request with 401; otherwise "user_id" is set in the context.
authMiddleware(auth, secret, t) ==
    IF ~auth.present
    THEN [abort |-> TRUE, userID |-> 0, err |-> "NoHeader"]
    ELSE LET v == validateToken(auth.token, secret, t)
         IN  [abort |-> v.err # "nil", userID |-> v.userID, err |-> v.err]

---------------------------------------------------------------------------
(* Request validation (gin binding tags, main.go:42-56).                   *)

RuneCount(s) ==
    CASE s = "" -> 0
      [] s = "al" -> 2
      [] s = "bob" -> 3
      [] s = "alice" -> 5
      [] s = "carol" -> 5
      [] OTHER -> 8

IsEmail(s) == s \in {"alice@x.io", "bob@x.io", "carol@x.io"}

MinUsernameLen == 3
MinPasswordLen == 6

\* utf8.RuneCountInString of a byte string: the bytes that are not UTF-8
\* continuation bytes (10xxxxxx).
PasswordRunes(password) ==
    Cardinality({i \in 1..Len(password) : password[i] \div 64 # 2})

\* A binding without the rule on the password.
BindRegisterNoPasswordRule(username, email, password) ==
    /\ username # "" /\ RuneCount(username) >= MinUsernameLen
    /\ email # "" /\ IsEmail(email)

\* RegisterRequest: required,min=3 / required,email / required,min=6; the
\* validator's min counts characters.
BindRegister(username, email, password) ==
    /\ username # "" /\ RuneCount(username) >= MinUsernameLen
    /\ email # "" /\ IsEmail(email)
    /\ password # EmptyString /\ PasswordRunes(password) >= MinPasswordLen

\* LoginRequest: both fields required.
BindLogin(username, password) == username # "" /\ password # EmptyString

\* TaskRequest: title required.
BindTask(title) == title # ""

---------------------------------------------------------------------------
(* The response record.                                                    *)

NoBody == [error |-> "", username |-> "", email |-> "", id |-> 0,
           tasks |-> << >>]

\* The state before any request.
NoRequest ==
    [route |-> "", username |-> "", password |-> EmptyString,
     auth |-> NoHeader, param |-> "", title |-> "", description |-> "",
     completed |-> FALSE, user_id |-> 0, at |-> 0, status |-> 0, ran |-> FALSE, db |-> FALSE,
     uid |-> 0, authErr |-> "", token |-> NoToken, body |-> NoBody]

ErrorBody(msg) == [NoBody EXCEPT !.error = msg]

---------------------------------------------------------------------------
(* The public handlers (main.go:191-278).                                  *)

Request(route, username, password, auth) ==
    [NoRequest EXCEPT !.route = route, !.username = username,
                      !.password = password, !.auth = auth, !.at = now]

Reply(req, status, db, body) ==
    [req EXCEPT !.status = status, !.ran = TRUE, !.db = db, !.body = body]

\* A user row that keeps the request's password as it came.
newUserPlaintext(username, email, password, hashedPassword) ==
    [ID |-> userSeq, Username |-> username, Email |-> email,
     Password |-> password]

\* The user row register builds (main.go:219-225); the database assigns
\* the id.
newUser(username, email, password, hashedPassword) ==
    [ID |-> userSeq, Username |-> username, Email |-> email,
     Password |-> hashedPassword]

\* db.Where("username = ?", req.Username).First(&existingUser) finds a row.
usernameExists(username) == \E u \in users : u.Username = username

\* An email check that never finds a row.
emailExistsNever(email) == FALSE

\* db.Where("email = ?", req.Email).First(&existingUser) finds a row.
emailExists(email) == \E u \in users : u.Email = email

\* A register that takes every hashPassword result as a success.
hashFailedIgnored(h) == FALSE

\* hashPassword returned an error (main.go:212-213).
hashFailed(h) == h.err # "nil"

\* A users table without unique indexes.
createUserNeverFails(user) == FALSE

\* db.Create(&user) fails on the unique indexes of username and email
\* (main.go:21-22).
createUserFails(user) ==
    \E u \in users : u.Username = user.Username \/ u.Email = user.Email

\* POST /api/register.
register(username, email, password, randOK) ==
    LET req == Request("POST /api/register", username, password, NoHeader)
        h == hashPassword(password, rng + 1, randOK)
        user == newUser(username, email, password, h.hash)
        \* the latest hashPassword call, as in HashPasswordCall
        hashed == /\ hp' = [plain |-> password, hash |-> h.hash, err |-> h.err]
                  /\ UNCHANGED hpPrev
    IN  IF ~BindRegister(username, email, password)
        THEN /\ last' = Reply(req, 400, FALSE, ErrorBody("Invalid request data"))
             /\ UNCHANGED <<rng, hp, dbVars>>
        ELSE IF usernameExists(username)
        THEN /\ last' = Reply(req, 409, TRUE, ErrorBody("Username already exists"))
             /\ UNCHANGED <<rng, hp, dbVars>>
        ELSE IF emailExists(email)
        THEN /\ last' = Reply(req, 409, TRUE, ErrorBody("Email already exists"))
             /\ UNCHANGED <<rng, hp, dbVars>>
        ELSE IF hashFailed(h)
        THEN /\ last' = Reply(req, 500, TRUE, ErrorBody("Failed to hash password"))
             /\ hashed
             /\ UNCHANGED <<rng, dbVars>>
        ELSE IF createUserFails(user)
        THEN /\ rng' = rng + 1
             /\ hashed
             /\ last' = Reply(req, 500, TRUE, ErrorBody("Failed to create user"))
             /\ UNCHANGED dbVars
        ELSE /\ rng' = rng + 1
             /\ hashed
             /\ users' = users \cup {user}
             /\ userSeq' = userSeq + 1
             /\ regPlain' = regPlain @@ (user.ID :> password)
             /\ last' = Reply(req, 201, TRUE,
                              [NoBody EXCEPT !.id = user.ID,
                                             !.username = user.Username,
                                             !.email = user.Email])
             /\ UNCHANGED <<tasks, taskSeq>>

Register(username, email, password, randOK) ==
    /\ register(username, email, password, randOK)
    /\ UNCHANGED <<hpPrev, ck, jwtEnv, now, issued, ledger, threadVars>>

\* The user row with a username (usernames are unique).
UserNamed(username) == CHOOSE u \in users : u.Username = username

\* A token signed for another user's id.
loginTokenWrongID(user, signerOK) ==
    generateToken(user.ID + 1, getJWTSecret, now, signerOK)

\* The token login asks for (main.go:263).
loginToken(user, signerOK) ==
    generateToken(user.ID, getJWTSecret, now, signerOK)

\* A login that takes every generateToken result as a success.
tokenFailedIgnored(g) == FALSE

\* generateToken returned an error (main.go:264).
tokenFailed(g) == g.err # "nil"

\* A login that stores a new hash of the password it accepted.
loginPersistRehash(user, password) ==
    /\ users' = (users \ {user})
                   \cup {[user EXCEPT
                            !.Password = bcryptHash(password, BcryptCost,
                                                    rng + 1)]}
    /\ UNCHANGED <<userSeq, regPlain, tasks, taskSeq>>

\* What login writes to the database once the password is accepted
\* (main.go:262-277): nothing, the token included.
loginPersist(user, password) == UNCHANGED dbVars

\* POST /api/login.
login(username, password, signerOK) ==
    LET req == Request("POST /api/login", username, password, NoHeader)
    IN  IF ~BindLogin(username, password)
        THEN /\ last' = Reply(req, 400, FALSE, ErrorBody("Invalid request data"))
             /\ UNCHANGED <<issued, dbVars>>
        ELSE IF ~\E u \in users : u.Username = username
        THEN /\ last' = Reply(req, 401, TRUE, ErrorBody("Invalid credentials"))
             /\ UNCHANGED <<issued, dbVars>>
        ELSE LET user == UserNamed(username)
                 g == loginToken(user, signerOK)
             IN  IF ~checkPassword(password, user.Password)
                 THEN /\ last' = Reply(req, 401, TRUE,
                                       ErrorBody("Invalid credentials"))
                      /\ UNCHANGED <<issued, dbVars>>
                 ELSE IF tokenFailed(g)
                 THEN /\ last' = Reply(req, 500, TRUE,
                                       ErrorBody("Failed to generate token"))
                      /\ UNCHANGED <<issued, dbVars>>
                 ELSE /\ last' = [Reply(req, 200, TRUE,
                                        [NoBody EXCEPT !.id = user.ID,
                                                       !.username = user.Username,
                                                       !.email = user.Email])
                                  EXCEPT !.token = g.token]
                      /\ issued' = issued \cup
                                     {[token |-> g.token, owner |-> user.ID]}
                      /\ loginPersist(user, password)

\* Clients hold at most MaxTokens tokens.
Login(username, password, signerOK) ==
    /\ login(username, password, signerOK)
    /\ Cardinality(issued') <= MaxTokens
    /\ UNCHANGED <<credVars, jwtEnv, now, ledger, threadVars>>

---------------------------------------------------------------------------
(* The protected group (main.go:112-122) and its handlers                  *)
(* (main.go:280-413).                                                      *)

\* The protected group without the profile route.
ProtectedRoutesWithoutProfile ==
    {"GET /api/tasks", "POST /api/tasks", "GET /api/tasks/:id",
     "PUT /api/tasks/:id", "DELETE /api/tasks/:id"}

\* The routes registered on the group that uses authMiddleware.
ProtectedRoutes ==
    {"GET /api/tasks", "POST /api/tasks", "GET /api/tasks/:id",
     "PUT /api/tasks/:id", "DELETE /api/tasks/:id", "GET /api/profile"}

\* A gate that lets through only the newest token of each user.
GateNewestLoginOnly(route, auth) ==
    LET m == authMiddleware(auth, getJWTSecret, now)
    IN  IF \E i \in issued : /\ i.token.sub = auth.token.sub
                               /\ i.token.iat > auth.token.iat
        THEN [abort |-> TRUE, userID |-> 0, err |-> "TokenExpired"]
        ELSE m

\* What runs before a route's handler: the middleware for a route of the
\* protected group; nothing otherwise, and then c.GetUint("user_id") is 0.
Gate(route, auth) ==
    IF route \in ProtectedRoutes
    THEN authMiddleware(auth, getJWTSecret, now)
    ELSE [abort |-> FALSE, userID |-> 0, err |-> "nil"]

\* The JSON body of a create or update request: the two fields of
\* TaskRequest, and two more that a client may add.
TaskBody(title, description, completed, user_id) ==
    [title |-> title, description |-> description, completed |-> completed,
     user_id |-> user_id]

\* The body the page's form sends.
FormBody(title, description) == TaskBody(title, description, FALSE, 0)

TaskBodyRequest(route, auth, param, body) ==
    [NoRequest EXCEPT !.route = route, !.auth = auth, !.param = param,
                      !.title = body.title, !.description = body.description,
                      !.completed = body.completed, !.user_id = body.user_id,
                      !.at = now]

TaskRequestOf(route, auth, param, title, description) ==
    [NoRequest EXCEPT !.route = route, !.auth = auth, !.param = param,
                      !.title = title, !.description = description,
                      !.at = now]

\* An abort that tells the client which check failed.
UnauthorizedWithReason(req, m) ==
    [req EXCEPT !.status = 401, !.authErr = m.err, !.body = ErrorBody(m.err)]

\* The middleware's abort: 401, and the handler is not called.
Unauthorized(req, m) ==
    [req EXCEPT !.status = 401, !.authErr = m.err,
                !.body = ErrorBody("Unauthorized")]

\* A read of a context key that nothing has set: the zero default.
GetUintUnset(m) == 0

\* c.GetUint("user_id"), the first statement of every protected handler
\* (main.go:281): the value stored under the key, or 0 when there is none.
GetUint(m) == m.userID

\* The handler's reply to a request that passed the gate as user uid.
Handled(req, uid, status, db, body) ==
    [req EXCEPT !.status = status, !.ran = TRUE, !.db = db, !.uid = uid,
                !.authErr = "nil", !.body = body]

\* fmt.Sscanf(taskIDStr, "%d", &taskID) on the ids the clients send.
TaskIDInputs == {"1", "2", "abc"}

ScanTaskID(str) ==
    CASE str = "1" -> [ok |-> TRUE, id |-> 1]
      [] str = "2" -> [ok |-> TRUE, id |-> 2]
      [] OTHER -> [ok |-> FALSE, id |-> 0]

\* A query without the owner's condition.
TasksOfEveryone(uid) == tasks

\* Where("user_id = ?", userID) (main.go:284).
TasksOf(uid) == {t \in tasks : t.UserID = uid}

\* The orders in which ORDER BY created_at DESC may return a set of rows.
NewestFirst(S) ==
    {order \in [1..Cardinality(S) -> S] :
        /\ \A i, j \in 1..Cardinality(S) : i # j => order[i] # order[j]
        /\ \A i, j \in 1..Cardinality(S) :
              i < j => order[i].CreatedAt >= order[j].CreatedAt}

\* A lookup by the task's id alone.
FindTaskAnyOwner(id, uid) == {t \in tasks : t.ID = id}

\* Where("id = ? AND user_id = ?", taskID, userID).First(&task)
FindTask(id, uid) == {t \in tasks : t.ID = id /\ t.UserID = uid}

\* GET /api/tasks.
getTasks(auth) ==
    LET req == TaskRequestOf("GET /api/tasks", auth, "", "", "")
        m == Gate("GET /api/tasks", auth)
    IN  /\ IF m.abort
           THEN last' = Unauthorized(req, m)
           ELSE \E order \in NewestFirst(TasksOf(GetUint(m))) :
                   last' = Handled(req, GetUint(m), 200, TRUE,
                                   [NoBody EXCEPT !.tasks = order])
        /\ UNCHANGED <<tasks, taskSeq>>

\* A task row that takes its owner and its completion from the body.
newTaskFromBody(userID, body) ==
    [ID |-> taskSeq, Title |-> body.title, Description |-> body.description,
     Completed |-> body.completed,
     UserID |-> IF body.user_id # 0 THEN body.user_id ELSE userID,
     CreatedAt |-> now, UpdatedAt |-> now]

\* The task row createTask builds (main.go:301-308); the database assigns
\* the id.
newTask(userID, body) ==
    [ID |-> taskSeq, Title |-> body.title, Description |-> body.description,
     Completed |-> FALSE, UserID |-> userID,
     CreatedAt |-> now, UpdatedAt |-> now]

\* POST /api/tasks.
createTask(auth, body) ==
    LET req == TaskBodyRequest("POST /api/tasks", auth, "", body)
        m == Gate("POST /api/tasks", auth)
        task == newTask(GetUint(m), body)
    IN  IF m.abort
        THEN last' = Unauthorized(req, m) /\ UNCHANGED <<tasks, taskSeq>>
        ELSE IF ~BindTask(body.title)
        THEN /\ last' = Handled(req, GetUint(m), 400, FALSE,
                                ErrorBody("Invalid request data"))
             /\ UNCHANGED <<tasks, taskSeq>>
        ELSE /\ tasks' = tasks \cup {task}
             /\ taskSeq' = taskSeq + 1
             /\ last' = Handled(req, GetUint(m), 201, TRUE,
                                [NoBody EXCEPT !.tasks = <<task>>])

\* GET /api/tasks/:id.
getTask(auth, param) ==
    LET req == TaskRequestOf("GET /api/tasks/:id", auth, param, "", "")
        m == Gate("GET /api/tasks/:id", auth)
        scan == ScanTaskID(param)
        found == FindTask(scan.id, GetUint(m))
    IN  /\ IF m.abort
           THEN last' = Unauthorized(req, m)
           ELSE IF ~scan.ok
           THEN last' = Handled(req, GetUint(m), 400, FALSE,
                                ErrorBody("Invalid task ID"))
           ELSE IF found = {}
           THEN last' = Handled(req, GetUint(m), 404, TRUE,
                                ErrorBody("Task not found"))
           ELSE last' = Handled(req, GetUint(m), 200, TRUE,
                                [NoBody EXCEPT
                                   !.tasks = <<CHOOSE t \in found : TRUE>>])
        /\ UNCHANGED <<tasks, taskSeq>>

\* An update that takes the completion from the body as well.
updatedTaskWithCompleted(old, body) ==
    [old EXCEPT !.Title = body.title, !.Description = body.description,
                !.Completed = body.completed, !.UpdatedAt = now]

\* The fields updateTask assigns before db.Save (main.go:357-359).
updatedTask(old, body) ==
    [old EXCEPT !.Title = body.title, !.Description = body.description,
                !.UpdatedAt = now]

\* PUT /api/tasks/:id.
updateTask(auth, param, body) ==
    LET req == TaskBodyRequest("PUT /api/tasks/:id", auth, param, body)
        m == Gate("PUT /api/tasks/:id", auth)
        scan == ScanTaskID(param)
        found == FindTask(scan.id, GetUint(m))
    IN  IF m.abort
        THEN last' = Unauthorized(req, m) /\ UNCHANGED <<tasks, taskSeq>>
        ELSE IF ~scan.ok
        THEN /\ last' = Handled(req, GetUint(m), 400, FALSE,
                                ErrorBody("Invalid task ID"))
             /\ UNCHANGED <<tasks, taskSeq>>
        ELSE IF ~BindTask(body.title)
        THEN /\ last' = Handled(req, GetUint(m), 400, FALSE,
                                ErrorBody("Invalid request data"))
             /\ UNCHANGED <<tasks, taskSeq>>
        ELSE IF found = {}
        THEN /\ last' = Handled(req, GetUint(m), 404, TRUE,
                                ErrorBody("Task not found"))
             /\ UNCHANGED <<tasks, taskSeq>>
        ELSE LET old == CHOOSE t \in found : TRUE
                 task == updatedTask(old, body)
             IN  /\ tasks' = (tasks \ {old}) \cup {task}
                 /\ last' = Handled(req, GetUint(m), 200, TRUE,
                                    [NoBody EXCEPT !.tasks = <<task>>])
                 /\ UNCHANGED taskSeq

\* DELETE /api/tasks/:id.
deleteTask(auth, param) ==
    LET req == TaskRequestOf("DELETE /api/tasks/:id", auth, param, "", "")
        m == Gate("DELETE /api/tasks/:id", auth)
        scan == ScanTaskID(param)
        found == FindTask(scan.id, GetUint(m))
    IN  IF m.abort
        THEN last' = Unauthorized(req, m) /\ UNCHANGED <<tasks, taskSeq>>
        ELSE IF ~scan.ok
        THEN /\ last' = Handled(req, GetUint(m), 400, FALSE,
                                ErrorBody("Invalid task ID"))
             /\ UNCHANGED <<tasks, taskSeq>>
        ELSE IF found = {}
        THEN /\ last' = Handled(req, GetUint(m), 404, TRUE,
                                ErrorBody("Task not found"))
             /\ UNCHANGED <<tasks, taskSeq>>
        ELSE /\ tasks' = tasks \ found
             /\ last' = Handled(req, GetUint(m), 200, TRUE, NoBody)
             /\ UNCHANGED taskSeq

\* A lookup that leaves the id out and returns the first row.
profileUserFirstRow(userID) ==
    {u \in users : \A v \in users : u.ID <= v.ID}

\* db.First(&user, userID) (main.go:401-402).
profileUser(userID) == {u \in users : u.ID = userID}

\* GET /api/profile.
getProfile(auth) ==
    LET req == TaskRequestOf("GET /api/profile", auth, "", "", "")
        m == Gate("GET /api/profile", auth)
        found == profileUser(GetUint(m))
    IN  /\ IF m.abort
           THEN last' = Unauthorized(req, m)
           ELSE IF found = {}
           THEN last' = Handled(req, GetUint(m), 404, TRUE,
                                ErrorBody("User not found"))
           ELSE LET user == CHOOSE u \in found : TRUE
                IN  last' = Handled(req, GetUint(m), 200, TRUE,
                                    [NoBody EXCEPT !.id = user.ID,
                                                   !.username = user.Username,
                                                   !.email = user.Email])
        /\ UNCHANGED <<tasks, taskSeq>>

\* What a client knows of its tasks after the response l: a created task
\* with the id the response carries, an updated task with the title and
\* the description it sent, and a deleted task no more.
LedgerAfter(l) ==
    LET id == ScanTaskID(l.param).id
    IN  IF l.route = "POST /api/tasks" /\ l.status = 201
        THEN ledger \cup {[id |-> l.body.tasks[1].ID, owner |-> l.uid,
                           title |-> l.title, description |-> l.description]}
        ELSE IF l.route = "PUT /api/tasks/:id" /\ l.status = 200
        THEN {IF e.id = id /\ e.owner = l.uid
              THEN [e EXCEPT !.title = l.title, !.description = l.description]
              ELSE e : e \in ledger}
        ELSE IF l.route = "DELETE /api/tasks/:id" /\ l.status = 200
        THEN {e \in ledger : ~(e.id = id /\ e.owner = l.uid)}
        ELSE ledger

\* What the handlers of the protected group leave alone; the clients note
\* the response.
ProtectedFrame ==
    /\ UNCHANGED <<credVars, jwtEnv, users, userSeq, regPlain, now, issued,
                   threadVars>>
    /\ ledger' = LedgerAfter(last')

GetTasks(auth) == getTasks(auth) /\ ProtectedFrame
CreateTask(auth, body) == createTask(auth, body) /\ ProtectedFrame
GetTask(auth, param) == getTask(auth, param) /\ ProtectedFrame
UpdateTask(auth, param, body) ==
    updateTask(auth, param, body) /\ ProtectedFrame
DeleteTask(auth, param) == deleteTask(auth, param) /\ ProtectedFrame
GetProfile(auth) == getProfile(auth) /\ ProtectedFrame

\* Time passes.
Tick ==
    /\ now < MaxTime
    /\ now' = now + 1
    /\ UNCHANGED <<credVars, jwtEnv, dbVars, issued, last, ledger, threadVars>>

---------------------------------------------------------------------------
(* The credential functions called on their own.                           *)

\* The plaintexts tried: empty, one byte, one with an inner NUL, and 'a'
\* repeated up to and past bcrypt's 72 bytes.
Plaintexts ==
    {EmptyString, <<CharA>>, <<CharA, NUL, CharA>>, Rep(CharB, 6),
     Rep(CharA, BcryptKeyBytes), Rep(CharA, BcryptKeyBytes + 1)}

NoCall == [plain |-> EmptyString, hash |-> EmptyString, err |-> "none"]
NoCheck == [plain |-> EmptyString, hash |-> EmptyString, result |-> FALSE,
            called |-> FALSE]

\* Credentials that no hashPassword call produced.
MalformedCredentials ==
    {EmptyString, Rep(CharA, 6), <<Dollar, BcryptCost, 1>>}

\* The request threads.
Threads == 1..MaxThreads

\* A thread that has made no call.
NoThreadCall ==
    [pc |-> "idle", op |-> "", uid |-> 0, tok |-> NoToken, at |-> 0,
     key |-> "", alone |-> [token |-> NoToken, userID |-> 0, err |-> ""],
     result |-> [token |-> NoToken, userID |-> 0, err |-> ""]]

\* The server before its first request: empty tables, the clock at 0.
InitServer ==
    /\ serving = TRUE
    /\ calls = [th \in Threads |-> NoThreadCall]
    /\ users = {}
    /\ userSeq = 1
    /\ regPlain = << >>
    /\ tasks = {}
    /\ taskSeq = 1
    /\ now = 0
    /\ issued = {}
    /\ last = NoRequest
    /\ ledger = {}

InitCred ==
    /\ rng = 0
    /\ hp = NoCall
    /\ hpPrev = NoCall
    /\ ck = NoCheck
    /\ jwtEnv = ""
    /\ InitServer

\* A call hashPassword(p); crypto/rand either yields a salt it has not
\* yielded before or fails.
HashPasswordCall(p, randOK) ==
    /\ rng < MaxSalts
    /\ LET r == hashPassword(p, rng + 1, randOK)
       IN  /\ hp' = [plain |-> p, hash |-> r.hash, err |-> r.err]
           /\ hpPrev' = hp
           /\ rng' = IF r.err = "nil" THEN rng + 1 ELSE rng
    /\ UNCHANGED <<ck, serverVars>>

\* A call checkPassword(p, h).
CheckPasswordCall(p, h) ==
    /\ ck' = [plain |-> p, hash |-> h, result |-> checkPassword(p, h),
              called |-> TRUE]
    /\ UNCHANGED <<rng, hp, hpPrev, serverVars>>

NextCred ==
    \/ \E p \in Plaintexts, randOK \in BOOLEAN : HashPasswordCall(p, randOK)
    \/ \E p \in Plaintexts, h \in {hp.hash, hpPrev.hash} : CheckPasswordCall(p, h)
    \/ \E p \in Plaintexts, h \in MalformedCredentials : CheckPasswordCall(p, h)

SpecCred == InitCred /\ [][NextCred]_vars

---------------------------------------------------------------------------
(* The clients' inputs.                                                    *)

\* JWT_SECRET as the deployment sets it, or unset.
JWTEnvInputs == {"", "configured-secret"}

Password72 == Rep(CharA, BcryptKeyBytes)
Password73 == Rep(CharA, BcryptKeyBytes + 1)

RegisterBody(username, email, password, randOK) ==
    [username |-> username, email |-> email, password |-> password,
     randOK |-> randOK]

\* The two bytes of the character e-acute in UTF-8.
EAcute == <<195, 169>>

\* The register requests clients send: two valid ones, one for each
\* validation rule, one without a password, one whose password has six
\* bytes in three characters, one with a new username and alice's email,
\* one whose password is past bcrypt's limit, and one during which
\* crypto/rand fails.
RegisterRequests ==
    {RegisterBody("alice", "alice@x.io", Password72, TRUE),
     RegisterBody("bob", "bob@x.io", Rep(CharB, MinPasswordLen), TRUE),
     RegisterBody("al", "alice@x.io", Password72, TRUE),
     RegisterBody("alice", "not-an-email", Password72, TRUE),
     RegisterBody("alice", "alice@x.io", Rep(CharA, MinPasswordLen - 1), TRUE),
     RegisterBody("bob", "bob@x.io", EmptyString, TRUE),
     RegisterBody("bob", "bob@x.io", EAcute \o EAcute \o EAcute, TRUE),
     RegisterBody("bob", "alice@x.io", Rep(CharB, MinPasswordLen), TRUE),
     RegisterBody("bob", "bob@x.io", Password73, TRUE),
     RegisterBody("bob", "bob@x.io", Password72, FALSE)}

LoginUsernames == {"", "alice", "bob"}

LoginPasswords ==
    {EmptyString, Rep(CharB, MinPasswordLen), Password72, Password73}

TitleInputs == {"", "t1"}
DescriptionInputs == {"d1"}

\* The tokens clients hold.
HeldTokens == {i.token : i \in issued}

\* A held token with its payload altered: another subject, or a later
\* expiry.  The signature stays as issued.
PayloadAltered(t) ==
    {[t EXCEPT !.sub = s] : s \in (1..2) \ {t.sub}}
    \cup {[t EXCEPT !.exp = MaxTime + TokenTTL + 1]}

\* A held token with its last character altered.
LastCharAltered(t) == [t EXCEPT !.sig.last = 1]

\* A token with the same payload signed with another secret.
ForeignSigned(t) == MakeToken(t.sub, t.iat, t.exp, "attacker-secret")

\* A string that is no token ("invalid-token").
GarbageToken == [NoToken EXCEPT !.parts = 1]

\* A correctly signed token whose payload carries no subject.
SubjectlessToken == MakeToken(NoSub, 0, MaxTime + TokenTTL, getJWTSecret)

\* A correctly signed token without a subject that expires at time 0.
ExpiredSubjectlessToken == MakeToken(NoSub, 0, 0, getJWTSecret)

AlteredTokens ==
    UNION {PayloadAltered(t) : t \in HeldTokens}
    \cup {LastCharAltered(t) : t \in HeldTokens}
    \cup {ForeignSigned(t) : t \in HeldTokens}

\* Every header the clients of the auth routes send.
AuthInputs ==
    {NoHeader}
    \cup {Bearer(t) : t \in HeldTokens \cup AlteredTokens
                             \cup {GarbageToken, SubjectlessToken,
                                   ExpiredSubjectlessToken}}

---------------------------------------------------------------------------
(* The server from its start: registration, login and the profile.         *)

Init ==
    /\ rng = 0
    /\ hp = NoCall
    /\ hpPrev = NoCall
    /\ ck = NoCheck
    /\ jwtEnv \in JWTEnvInputs
    /\ InitServer

Next ==
    \/ \E r \in RegisterRequests :
          Register(r.username, r.email, r.password, r.randOK)
    \/ \E u \in LoginUsernames, p \in LoginPasswords, signerOK \in BOOLEAN :
          Login(u, p, signerOK)
    \/ \E a \in AuthInputs : GetProfile(a)
    \/ Tick

Spec == Init /\ [][Next]_vars

---------------------------------------------------------------------------
(* The protected group, with alice and bob registered.                     *)

Alice ==
    [ID |-> 1, Username |-> "alice", Email |-> "alice@x.io",
     Password |-> bcryptHash(Password72, BcryptCost, 1)]

Bob ==
    [ID |-> 2, Username |-> "bob", Email |-> "bob@x.io",
     Password |-> bcryptHash(Rep(CharB, MinPasswordLen), BcryptCost, 2)]

\* The state after alice and bob registered.
InitGate ==
    /\ rng = 2
    /\ hp = NoCall
    /\ hpPrev = NoCall
    /\ ck = NoCheck
    /\ jwtEnv = ""
    /\ users = {Alice, Bob}
    /\ userSeq = 3
    /\ regPlain = <<Password72, Rep(CharB, MinPasswordLen)>>
    /\ tasks = {}
    /\ taskSeq = 1
    /\ now = 0
    /\ issued = {}
    /\ last = NoRequest
    /\ ledger = {}
    /\ serving = TRUE
    /\ calls = [th \in Threads |-> NoThreadCall]

GateLogins ==
    {<<"alice", Password72>>, <<"bob", Rep(CharB, MinPasswordLen)>>,
     <<"bob", Password72>>}

\* The headers the clients of the protected group send.
GateAuthInputs ==
    {NoHeader}
    \cup {Bearer(t) : t \in HeldTokens \cup {LastCharAltered(t) : t \in HeldTokens}
                             \cup {GarbageToken, SubjectlessToken}}

GateTaskIDs == {"1", "abc"}

\* A third user registers while alice and bob work.
GateRegisters ==
    {RegisterBody("carol", "carol@x.io", Rep(CharB, MinPasswordLen), TRUE)}

NextGate ==
    \/ \E r \in GateRegisters :
          Register(r.username, r.email, r.password, r.randOK)
    \/ \E l \in GateLogins : Login(l[1], l[2], TRUE)
    \/ \E a \in GateAuthInputs : GetTasks(a)
    \/ \E a \in GateAuthInputs, t \in TitleInputs, d \in DescriptionInputs :
          CreateTask(a, FormBody(t, d)) /\ taskSeq' <= MaxTasks + 1
    \/ \E a \in GateAuthInputs, id \in GateTaskIDs : GetTask(a, id)
    \/ \E a \in GateAuthInputs, id \in GateTaskIDs, d \in DescriptionInputs :
          UpdateTask(a, id, FormBody("t1", d))
    \/ \E a \in GateAuthInputs, id \in GateTaskIDs : DeleteTask(a, id)
    \/ \E a \in GateAuthInputs : GetProfile(a)
    \/ Tick

SpecGate == InitGate /\ [][NextGate]_vars

---------------------------------------------------------------------------
(* The task routes, with alice and bob logged in.                          *)

\* The state after alice and bob registered and logged in.
InitTasks ==
    /\ rng = 2
    /\ hp = NoCall
    /\ hpPrev = NoCall
    /\ ck = NoCheck
    /\ jwtEnv = ""
    /\ users = {Alice, Bob}
    /\ userSeq = 3
    /\ regPlain = <<Password72, Rep(CharB, MinPasswordLen)>>
    /\ tasks = {}
    /\ taskSeq = 1
    /\ now = 0
    /\ issued = {[token |-> loginToken(u, TRUE).token, owner |-> u.ID] :
                    u \in {Alice, Bob}}
    /\ last = NoRequest
    /\ ledger = {}
    /\ serving = TRUE
    /\ calls = [th \in Threads |-> NoThreadCall]

\* The headers of the two clients.
TaskAuthInputs == {Bearer(t) : t \in HeldTokens}

\* The bodies the clients send: one without a title, the form's, and one
\* that adds a completion and bob's id as the owner.
TaskBodies ==
    {FormBody("", "d1"), FormBody("t1", "d1"), TaskBody("t2", "d2", TRUE, 2)}

NextTasks ==
    \/ \E a \in TaskAuthInputs : GetTasks(a)
    \/ \E a \in TaskAuthInputs, b \in TaskBodies :
          CreateTask(a, b) /\ taskSeq' <= MaxListed + 1
    \/ \E a \in TaskAuthInputs, id \in TaskIDInputs : GetTask(a, id)
    \/ \E a \in TaskAuthInputs, id \in TaskIDInputs, b \in TaskBodies :
          UpdateTask(a, id, b)
    \/ \E a \in TaskAuthInputs, id \in TaskIDInputs : DeleteTask(a, id)
    \/ Tick

SpecTasks == InitTasks /\ [][NextTasks]_vars

\* The body of the update with which a client marks a task as complete.
CompletedBody == TaskBody("t2", "d2", TRUE, 2)

\* The client with header a marks a task of its own as complete and the
\* server answers 200.
MarkComplete(a) ==
    \E id \in TaskIDInputs :
       UpdateTask(a, id, CompletedBody) /\ last'.status = 200

\* The client with header a reads its list and the list has a task.
ListTasks(a) ==
    /\ GetTasks(a)
    /\ last'.status = 200
    /\ last'.body.tasks # << >>

\* The task routes while the two tokens are valid, with clients whose
\* updates all mark the task as complete.
NextTasksFair ==
    \/ \E a \in TaskAuthInputs : GetTasks(a)
    \/ \E a \in TaskAuthInputs, b \in TaskBodies :
          CreateTask(a, b) /\ taskSeq' <= MaxListed + 1
    \/ \E a \in TaskAuthInputs, id \in TaskIDInputs :
          UpdateTask(a, id, CompletedBody)
    \/ \E a \in TaskAuthInputs, id \in TaskIDInputs : DeleteTask(a, id)

\* Each client keeps marking its tasks as complete and keeps reading its
\* list, as long as it has tasks.
SpecTasksFair ==
    /\ InitTasks
    /\ [][NextTasksFair]_vars
    /\ \A u \in {Alice, Bob} :
          /\ SF_vars(MarkComplete(Bearer(loginToken(u, TRUE).token)))
          /\ SF_vars(ListTasks(Bearer(loginToken(u, TRUE).token)))

---------------------------------------------------------------------------
(* Register requests served by concurrent threads: the two existence       *)
(* checks, the hashing and the insert of a request are steps of their own, *)
(* and the steps of different requests interleave (main.go:198-230).       *)

\* A thread that serves no register request.
NoRegistration ==
    [pc |-> "idle", username |-> "", email |-> "", password |-> EmptyString,
     randOK |-> TRUE, hash |-> EmptyString, status |-> 0, error |-> ""]

InitRegister ==
    /\ rng = 0
    /\ hp = NoCall
    /\ hpPrev = NoCall
    /\ ck = NoCheck
    /\ jwtEnv = ""
    /\ users = {}
    /\ userSeq = 1
    /\ regPlain = << >>
    /\ tasks = {}
    /\ taskSeq = 1
    /\ now = 0
    /\ issued = {}
    /\ last = NoRequest
    /\ ledger = {}
    /\ serving = TRUE
    /\ calls = [th \in Threads |-> NoRegistration]

\* The requests that arrive together: two with a username, two with an
\* email, all four pairwise in conflict or not, one that is not valid and
\* one during which crypto/rand fails.
ConcurrentRegisters ==
    {RegisterBody("alice", "alice@x.io", Rep(CharB, MinPasswordLen), TRUE),
     RegisterBody("alice", "bob@x.io", Rep(CharB, MinPasswordLen), TRUE),
     RegisterBody("bob", "alice@x.io", Rep(CharB, MinPasswordLen), TRUE),
     RegisterBody("bob", "bob@x.io", Rep(CharB, MinPasswordLen), TRUE),
     RegisterBody("al", "alice@x.io", Rep(CharB, MinPasswordLen), TRUE),
     RegisterBody("bob", "bob@x.io", Rep(CharB, MinPasswordLen), FALSE)}

\* The thread's request ends with a response.
Responded(c, status, error) ==
    [c EXCEPT !.pc = "done", !.status = status, !.error = error]

\* What a step of a register request leaves alone.
RegisterStepFrame ==
    UNCHANGED <<hpPrev, ck, jwtEnv, tasks, taskSeq, now, issued, last, ledger,
                serving>>

\* A thread takes a request and binds its body (main.go:192-196).
registerBind(th, r) ==
    /\ calls[th].pc \in {"idle", "done"}
    /\ LET c == [NoRegistration EXCEPT
                   !.username = r.username, !.email = r.email,
                   !.password = r.password, !.randOK = r.randOK]
       IN  calls' = [calls EXCEPT ![th] =
                       IF ~BindRegister(r.username, r.email, r.password)
                       THEN Responded(c, 400, "Invalid request data")
                       ELSE [c EXCEPT !.pc = "username"]]
    /\ UNCHANGED <<rng, hp, users, userSeq, regPlain>>
    /\ RegisterStepFrame

\* The check of the username (main.go:198-203).
registerCheckUsername(th) ==
    /\ calls[th].pc = "username"
    /\ calls' = [calls EXCEPT ![th] =
                   IF usernameExists(calls[th].username)
                   THEN Responded(calls[th], 409, "Username already exists")
                   ELSE [calls[th] EXCEPT !.pc = "email"]]
    /\ UNCHANGED <<rng, hp, users, userSeq, regPlain>>
    /\ RegisterStepFrame

\* The check of the email (main.go:205-209).
registerCheckEmail(th) ==
    /\ calls[th].pc = "email"
    /\ calls' = [calls EXCEPT ![th] =
                   IF emailExists(calls[th].email)
                   THEN Responded(calls[th], 409, "Email already exists")
                   ELSE [calls[th] EXCEPT !.pc = "hash"]]
    /\ UNCHANGED <<rng, hp, users, userSeq, regPlain>>
    /\ RegisterStepFrame

\* The hashing of the password (main.go:211-216).
registerHash(th) ==
    /\ calls[th].pc = "hash"
    /\ rng < MaxSalts
    /\ LET c == calls[th]
           h == hashPassword(c.password, rng + 1, c.randOK)
       IN  /\ hp' = [plain |-> c.password, hash |-> h.hash, err |-> h.err]
           /\ IF hashFailed(h)
              THEN /\ calls' = [calls EXCEPT ![th] =
                                  Responded(c, 500, "Failed to hash password")]
                   /\ UNCHANGED rng
              ELSE /\ calls' = [calls EXCEPT ![th] =
                                  [c EXCEPT !.pc = "create", !.hash = h.hash]]
                   /\ rng' = rng + 1
    /\ UNCHANGED <<users, userSeq, regPlain>>
    /\ RegisterStepFrame

\* db.Create(&user) (main.go:227-230): the insert takes a value of the id
\* sequence, and fails on the unique indexes when another request has
\* inserted the username or the email since the checks.
registerCreate(th) ==
    /\ calls[th].pc = "create"
    /\ LET c == calls[th]
           user == newUser(c.username, c.email, c.password, c.hash)
       IN  IF createUserFails(user)
           THEN /\ calls' = [calls EXCEPT ![th] =
                               Responded(c, 500, "Failed to create user")]
                /\ userSeq' = userSeq + 1
                /\ UNCHANGED <<users, regPlain>>
           ELSE /\ calls' = [calls EXCEPT ![th] = Responded(c, 201, "")]
                /\ users' = users \cup {user}
                /\ userSeq' = userSeq + 1
                /\ regPlain' = regPlain @@ (user.ID :> c.password)
    /\ UNCHANGED <<rng, hp>>
    /\ RegisterStepFrame

NextRegister ==
    \/ \E th \in Threads, r \in ConcurrentRegisters : registerBind(th, r)
    \/ \E th \in Threads : registerCheckUsername(th)
    \/ \E th \in Threads : registerCheckEmail(th)
    \/ \E th \in Threads : registerHash(th)
    \/ \E th \in Threads : registerCreate(th)

SpecRegister == InitRegister /\ [][NextRegister]_vars

---------------------------------------------------------------------------
(* The process from its start, with request threads that call the token    *)
(* service: each call reads the secret in one step and returns in another, *)
(* so that the calls of different threads, the clock and any write to the   *)
(* secret interleave.                                                      *)

\* The process before main runs: JWT_SECRET as the shell set it, no thread
\* serving.
InitThreads ==
    /\ rng = 0
    /\ hp = NoCall
    /\ hpPrev = NoCall
    /\ ck = NoCheck
    /\ jwtEnv \in JWTEnvInputs
    /\ users = {}
    /\ userSeq = 1
    /\ regPlain = << >>
    /\ tasks = {}
    /\ taskSeq = 1
    /\ now = 0
    /\ issued = {}
    /\ last = NoRequest
    /\ ledger = {}
    /\ serving = FALSE
    /\ calls = [th \in Threads |-> NoThreadCall]

\* An environment that is written at any time.
envWritableAlways == TRUE

\* godotenv.Load() is called in main before the router runs (main.go:63)
\* and nothing else writes the environment.
envWritable == ~serving

\* godotenv.Load(): JWT_SECRET takes the value of the .env file, unless the
\* variable is already set.
LoadEnv(v) ==
    /\ envWritable
    /\ jwtEnv' = (IF jwtEnv = "" THEN v ELSE jwtEnv)
    /\ UNCHANGED <<credVars, dbVars, now, issued, last, ledger, serving,
                   calls>>

\* r.Run: the router starts to serve.
Run ==
    /\ ~serving
    /\ serving' = TRUE
    /\ UNCHANGED <<credVars, jwtEnv, dbVars, now, issued, last, ledger, calls>>

\* The result of a call, in one shape for issue and verify.
IssueResult(g) == [token |-> g.token, userID |-> 0, err |-> g.err]
VerifyResult(v) == [token |-> NoToken, userID |-> v.userID, err |-> v.err]

\* The tokens the threads verify: those that issue calls have returned,
\* the same with the last character altered, and a string that is no token.
ThreadTokens ==
    LET returned == {calls[th].result.token :
                        th \in {x \in Threads : /\ calls[x].pc = "returned"
                                                /\ calls[x].op = "issue"}}
    IN  returned \cup {LastCharAltered(t) : t \in returned} \cup {GarbageToken}

\* A request thread calls generateToken(uid).  alone is what the call
\* returns when nothing else runs between the call and its return.
CallIssue(th, uid) ==
    /\ serving
    /\ calls[th].pc \in {"idle", "returned"}
    /\ calls' = [calls EXCEPT ![th] =
                   [NoThreadCall EXCEPT
                      !.pc = "called", !.op = "issue", !.uid = uid, !.at = now,
                      !.alone = IssueResult(generateToken(uid, getJWTSecret,
                                                          now, TRUE))]]
    /\ UNCHANGED <<credVars, jwtEnv, dbVars, now, issued, last, ledger,
                   serving>>

\* A request thread calls the verification of tok.
CallVerify(th, tok) ==
    /\ serving
    /\ calls[th].pc \in {"idle", "returned"}
    /\ calls' = [calls EXCEPT ![th] =
                   [NoThreadCall EXCEPT
                      !.pc = "called", !.op = "verify", !.tok = tok, !.at = now,
                      !.alone = VerifyResult(validateToken(tok, getJWTSecret,
                                                           now))]]
    /\ UNCHANGED <<credVars, jwtEnv, dbVars, now, issued, last, ledger,
                   serving>>

\* The call reads the secret.
ReadSecret(th) ==
    /\ calls[th].pc = "called"
    /\ calls' = [calls EXCEPT ![th].pc = "keyed", ![th].key = getJWTSecret]
    /\ UNCHANGED <<credVars, jwtEnv, dbVars, now, issued, last, ledger,
                   serving>>

\* The call computes its result with the secret it read, and returns.
Return(th) ==
    /\ calls[th].pc = "keyed"
    /\ LET c == calls[th]
           r == IF c.op = "issue"
                THEN IssueResult(generateToken(c.uid, c.key, c.at, TRUE))
                ELSE VerifyResult(validateToken(c.tok, c.key, c.at))
       IN  calls' = [calls EXCEPT ![th].pc = "returned", ![th].result = r]
    /\ UNCHANGED <<credVars, jwtEnv, dbVars, now, issued, last, ledger,
                   serving>>

NextThreads ==
    \/ \E v \in JWTEnvInputs : LoadEnv(v)
    \/ Run
    \/ \E th \in Threads, uid \in 1..2 : CallIssue(th, uid)
    \/ \E th \in Threads, tok \in ThreadTokens : CallVerify(th, tok)
    \/ \E th \in Threads : ReadSecret(th)
    \/ \E th \in Threads : Return(th)
    \/ Tick

SpecThreads == InitThreads /\ [][NextThreads]_vars

---------------------------------------------------------------------------
(* Properties of the credential functions (SpecCred).                      *)

\* The successful hashPassword calls on record.
HashCalls == {c \in {hp, hpPrev} : c.err = "nil"}

\* C7, as stated: for every non-empty plaintext P, hashPassword(P) yields
\* a credential and checkPassword(P, that credential) is true (crypto/rand
\* working).
PasswordRoundTripEveryPlaintext ==
    (hp.err \notin {"none", "rand"} /\ hp.plain # EmptyString)
        => (hp.err = "nil" /\ checkPassword(hp.plain, hp.hash))

\* C7, amended: for every non-empty plaintext P of at most 72 bytes,
\* hashPassword(P) succeeds when crypto/rand works and checkPassword(P, the
\* credential it returned) is true; for a longer P hashPassword returns an
\* error and the empty credential, which checkPassword rejects.
PasswordRoundTrip ==
    /\ (hp.err \notin {"none", "rand"} /\ hp.plain # EmptyString)
          => (hp.err = "nil" <=> Len(hp.plain) <= BcryptKeyBytes)
    /\ \A c \in HashCalls :
          (ck.called /\ ck.hash = c.hash /\ ck.plain = c.plain
             /\ c.plain # EmptyString) => ck.result
    /\ (ck.called /\ ck.hash = hp.hash /\ hp.err = "ErrPasswordTooLong")
          => ~ck.result

\* A 72-byte plaintext was hashed and checked against its own credential.
PasswordRoundTripWitness ==
    /\ hp.err = "nil" /\ hp.plain = Rep(CharA, BcryptKeyBytes)
    /\ ck.called /\ ck.hash = hp.hash /\ ck.plain = hp.plain /\ ck.result

\* C8: for all plaintexts P1 # P2, checkPassword(P1, hashPassword(P2)) is
\* false.
PasswordMismatch ==
    \A c \in HashCalls :
        (ck.called /\ ck.hash = c.hash /\ ck.plain # c.plain) => ~ck.result

---------------------------------------------------------------------------
(* Properties of the server (Spec) and of the protected group (SpecGate).  *)

\* C1: the token login returned for a user verifies, at any time up to its
\* expiry, to that user's id and to no other.
TokenRoundTrip ==
    \A i \in issued :
        /\ now <= i.token.exp
              => validateToken(i.token, getJWTSecret, now)
                    = [userID |-> i.owner, err |-> "nil"]
        /\ (last.route = "GET /api/profile" /\ last.auth = Bearer(i.token)
              /\ last.at <= i.token.exp)
              => (last.authErr = "nil" /\ last.uid = i.owner)

\* A token was presented at its expiry time, after the time it was issued
\* at, and the request ran as the user who logged in.
TokenRoundTripWitness ==
    \E i \in issued :
        /\ last.route = "GET /api/profile" /\ last.auth = Bearer(i.token)
        /\ last.at = i.token.exp /\ last.at > i.token.iat
        /\ last.status = 200 /\ last.uid = i.owner

\* C2: a token made from an issued one by altering its payload or its last
\* character, or by signing its payload with another secret, fails
\* verification with InvalidSignature; no such token is accepted.
TamperResistance ==
    /\ \A t \in AlteredTokens :
          validateToken(t, getJWTSecret, now).err = "InvalidSignature"
    /\ (last.auth.present /\ last.auth.token \in AlteredTokens)
          => (last.status = 401 /\ last.authErr = "InvalidSignature"
                /\ ~last.ran)

\* A token whose subject was altered was presented while the token it was
\* made from was still valid, and was rejected.
TamperResistanceWitness ==
    \E t \in HeldTokens :
        /\ last.auth.present /\ last.auth.token \in PayloadAltered(t)
        /\ last.auth.token.sub # t.sub
        /\ last.at <= t.exp
        /\ last.status = 401

\* C3: an issued token presented after its expiry fails verification with
\* TokenExpired, and the protected request that carries it is rejected.
ExpiredTokenRejected ==
    \A t \in HeldTokens :
        /\ now > t.exp
              => validateToken(t, getJWTSecret, now).err = "TokenExpired"
        /\ (last.auth = Bearer(t) /\ last.at > t.exp)
              => (last.status = 401 /\ last.authErr = "TokenExpired"
                    /\ ~last.ran /\ ~last.db)

\* An issued token was presented after its expiry.
ExpiredTokenRejectedWitness ==
    \E t \in HeldTokens :
        last.auth = Bearer(t) /\ last.at > t.exp /\ last.status = 401

\* The routes C4 and C5 name.
GatedRoutes ==
    {"GET /api/tasks", "POST /api/tasks", "GET /api/tasks/:id",
     "PUT /api/tasks/:id", "DELETE /api/tasks/:id", "GET /api/profile"}

\* The request carried no Authorization header, or a token that fails
\* verification at the time of the request.
AuthFails(l) ==
    \/ ~l.auth.present
    \/ validateToken(l.auth.token, getJWTSecret, l.at).err # "nil"

\* C4: a request to a protected route without an Authorization header, or
\* with a token that fails verification, is answered 401; its handler does
\* not run, reads nothing from the database and leaves the tables as they
\* were.
MiddlewareGate ==
    /\ [](  (last.route \in GatedRoutes /\ AuthFails(last))
              => (last.status = 401 /\ ~last.ran /\ ~last.db))
    /\ [][(last'.route \in GatedRoutes /\ AuthFails(last'))
              => UNCHANGED dbVars]_vars

\* A delete of an existing task was asked for with a failing token and
\* answered 401.
MiddlewareGateWitness ==
    /\ last.route = "DELETE /api/tasks/:id" /\ last.param = "1"
    /\ last.auth.present /\ AuthFails(last)
    /\ last.status = 401
    /\ \E t \in tasks : t.ID = 1

\* C5: a protected request made with the token a login returned, while it
\* is valid, runs as the user who logged in; the profile it returns is
\* that user's.
IdentityBinding ==
    \A i \in issued :
        (last.route \in GatedRoutes /\ last.auth = Bearer(i.token)
           /\ last.at <= i.token.exp)
        => /\ last.ran /\ last.uid = i.owner
           /\ last.route = "GET /api/profile"
                 => /\ last.status = 200
                    /\ \E u \in users :
                          /\ u.ID = i.owner
                          /\ last.body.username = u.Username
                          /\ last.body.email = u.Email

\* alice and bob both hold a token and bob has read his profile.
IdentityBindingWitness ==
    \E i, j \in issued :
        /\ i.owner = 1 /\ j.owner = 2
        /\ last.route = "GET /api/profile" /\ last.auth = Bearer(j.token)
        /\ last.body.username = "bob"

\* C6: login answers 200 with a token exactly when a user with the
\* username exists and the password verifies against the stored hash; with
\* a password other than the user's it answers 401 without a token.  (A
\* login that ends in a signing failure is left to C21.)
LoginIffValid ==
    (last.route = "POST /api/login" /\ last.status # 500)
    => /\ (last.status = 200 /\ last.token # NoToken)
             <=> \E u \in users :
                    /\ u.Username = last.username
                    /\ checkPassword(last.password, u.Password)
       /\ \A u \in users :
             (u.Username = last.username /\ last.password # EmptyString
                /\ last.password # regPlain[u.ID])
             => (last.status = 401 /\ last.token = NoToken)

\* C10: the Password of every persisted user is a credential hashPassword
\* produced for the plaintext the user registered with, and is not that
\* plaintext.
OnlyHashStored ==
    \A u \in users :
        /\ u.ID \in DOMAIN regPlain
        /\ u.Password # regPlain[u.ID]
        /\ \E salt \in 1..rng :
              hashPassword(regPlain[u.ID], salt, TRUE)
                 = [hash |-> u.Password, err |-> "nil"]

\* Two users are persisted, one registered with the 72-byte password.
OnlyHashStoredWitness ==
    /\ Cardinality(users) = 2
    /\ \E u \in users : regPlain[u.ID] = Password72

\* The routes that address one task by its id.
TaskIDRoutes ==
    {"GET /api/tasks/:id", "PUT /api/tasks/:id", "DELETE /api/tasks/:id"}

\* The response to a request for a task that does not exist.
TaskNotFound(l) ==
    l.status = 404 /\ l.body = ErrorBody("Task not found")

DuplicateOf(r) ==
    \E u \in users : u.Username = r.username \/ u.Email = r.email

\* C12, as stated: every register request whose username or email is that
\* of a persisted user is answered 409, and the users are unchanged.
DuplicateRegistrationEveryRequest ==
    [][\A r \in RegisterRequests :
          (Register(r.username, r.email, r.password, r.randOK)
             /\ DuplicateOf(r))
          => (last'.status = 409 /\ users' = users)]_vars

\* C12, amended: a register request that passes the binding validation and
\* whose username or email is that of a persisted user is answered 409; one
\* that fails the validation is answered 400; in both cases the users are
\* unchanged.
DuplicateRegistration ==
    [][\A r \in RegisterRequests :
          (Register(r.username, r.email, r.password, r.randOK)
             /\ DuplicateOf(r))
          => /\ last'.status =
                   (IF BindRegister(r.username, r.email, r.password)
                    THEN 409 ELSE 400)
             /\ UNCHANGED dbVars]_vars

\* A request with a new username and the email of a persisted user was
\* answered 409.
DuplicateRegistrationWitness ==
    /\ last.route = "POST /api/register" /\ last.status = 409
    /\ last.body = ErrorBody("Email already exists")
    /\ ~\E u \in users : u.Username = last.username

\* The failure kinds of the token service.
TokenFailures ==
    {"MalformedToken", "InvalidSignature", "TokenExpired", "MissingIdentity"}

\* What the client sees of a response.
ClientView(l) == [status |-> l.status, body |-> l.body, token |-> l.token]

\* The response to a profile request that carries the header a now.
ProfileResponse(a) ==
    LET req == TaskRequestOf("GET /api/profile", a, "", "", "")
    IN  Unauthorized(req, Gate("GET /api/profile", a))

\* C13: two protected requests whose tokens fail verification, for
\* whichever reasons, get the same status 401 and the same body, which
\* names no reason; the reason is kept apart from the response.
FailureCollapse ==
    /\ \A a, b \in AuthInputs :
          (/\ Gate("GET /api/profile", a).err \in TokenFailures
           /\ Gate("GET /api/profile", b).err \in TokenFailures)
          => ClientView(ProfileResponse(a)) = ClientView(ProfileResponse(b))
    /\ last.authErr \in TokenFailures
          => /\ ClientView(last) = [status |-> 401,
                                    body |-> ErrorBody("Unauthorized"),
                                    token |-> NoToken]
             /\ last.authErr
                   = validateToken(last.auth.token, getJWTSecret, last.at).err

\* An expired token was rejected while the clients also hold tokens that
\* fail for each of the other three reasons.
FailureCollapseWitness ==
    /\ last.authErr = "TokenExpired" /\ last.status = 401
    /\ \A f \in TokenFailures :
          \E a \in AuthInputs : Gate("GET /api/profile", a).err = f

\* C14: verification checks the parse, the signature, the expiry and the
\* identity in this order and the first check that fails names the
\* failure: MalformedToken for a token that does not parse,
\* InvalidSignature for a bad signature whether or not the token is
\* expired, TokenExpired for a signed expired token whether or not it has a
\* subject, and MissingIdentity only for a signed, unexpired token without
\* a subject.
VerifyOrder ==
    (last.route = "GET /api/profile" /\ last.auth.present)
    => LET tok == last.auth.token
           parsed == tok.parts = 3
           signed == tok.sig = Sign(tok.sub, tok.iat, tok.exp, getJWTSecret)
           expired == last.at > tok.exp
           subject == tok.sub # NoSub
       IN  /\ ~parsed => last.authErr = "MalformedToken"
           /\ (parsed /\ ~signed) => last.authErr = "InvalidSignature"
           /\ (parsed /\ signed /\ expired) => last.authErr = "TokenExpired"
           /\ last.authErr = "MissingIdentity"
                 <=> (parsed /\ signed /\ ~expired /\ ~subject)
           /\ last.authErr = "nil"
                 <=> (parsed /\ signed /\ ~expired /\ subject)

\* A token with a bad signature was presented after its expiry and was
\* rejected for its signature.
VerifyOrderWitness ==
    /\ last.route = "GET /api/profile" /\ last.auth.present
    /\ last.auth.token.parts = 3
    /\ last.auth.token.sig.last = 1
    /\ last.at > last.auth.token.exp
    /\ last.authErr = "InvalidSignature"

\* C15: a token verifies from the step that issues it, keeps verifying to
\* its owner while the clock is within its expiry whatever the step is (a
\* later login of the same user, another user's login, a registration, a
\* task operation), is rejected as expired at every time past its expiry,
\* and a protected request that carries it is accepted or rejected
\* accordingly.
TokenLifecycle ==
    /\ [][\A i \in issued' \ issued :
             validateToken(i.token, getJWTSecret', now').err = "nil"]_vars
    /\ [][\A i \in issued :
             /\ i \in issued'
             /\ now' <= i.token.exp
                   => validateToken(i.token, getJWTSecret', now')
                         = [userID |-> i.owner, err |-> "nil"]
             /\ now > i.token.exp
                   => validateToken(i.token, getJWTSecret', now').err
                         = "TokenExpired"]_vars
    /\ [](\A i \in issued :
             (last.route \in GatedRoutes /\ last.auth = Bearer(i.token))
             => last.authErr = (IF last.at <= i.token.exp
                                THEN "nil" ELSE "TokenExpired"))

\* alice logged in twice, carol registered, and alice then listed her tasks
\* with the older of her two tokens at its expiry time.
TokenLifecycleWitness ==
    /\ \E u \in users : u.Username = "carol"
    /\ \E i, j \in issued :
          /\ i.owner = j.owner /\ i.token.iat < j.token.iat
          /\ last.route = "GET /api/tasks" /\ last.auth = Bearer(i.token)
          /\ last.at = i.token.exp /\ last.status = 200

\* The rows of the two tables and their id sequences.
Persisted == <<users, userSeq, tasks, taskSeq>>

\* C16: a login request, accepted or refused (checkPassword and the token
\* issue run in it), a profile request (the token verification runs in it)
\* and a register request that ends without a new user (hashPassword may
\* have run in it) leave the users, the tasks and the signing secret as
\* they were; no row holds a token.
AuthFrame ==
    /\ [][(last' # last /\ last'.route = "POST /api/login")
             => UNCHANGED <<Persisted, jwtEnv>>]_vars
    /\ [][(last' # last /\ last'.route = "GET /api/profile")
             => UNCHANGED <<Persisted, jwtEnv>>]_vars
    /\ [][(last' # last /\ last'.route = "POST /api/register"
             /\ last'.status # 201)
             => UNCHANGED <<Persisted, jwtEnv>>]_vars
    /\ [](\A u \in users :
             DOMAIN u = {"ID", "Username", "Email", "Password"})

\* A login was accepted and returned a token while two users were
\* persisted.
AuthFrameWitness ==
    /\ last.route = "POST /api/login" /\ last.status = 200
    /\ last.token # NoToken
    /\ Cardinality(users) = 2

\* C17: the secret is written only before the router serves; no thread
\* calls the token service before that; and under every interleaving of
\* the threads' calls each call returns what it returns when run alone.
SecretReadOnly ==
    /\ [][serving => (serving' /\ jwtEnv' = jwtEnv)]_vars
    /\ [](~serving => \A th \in Threads : calls[th].pc = "idle")
    /\ [](\A th \in Threads :
             /\ calls[th].pc = "keyed" => calls[th].key = getJWTSecret
             /\ calls[th].pc = "returned"
                   => calls[th].result = calls[th].alone)

\* A thread's verify call accepted a token another thread's issue call had
\* returned, while that other thread was in the middle of its next call.
SecretReadOnlyWitness ==
    \E a, b \in Threads :
        /\ a # b
        /\ calls[a].pc = "returned" /\ calls[a].op = "verify"
        /\ calls[a].result.err = "nil"
        /\ calls[b].pc = "keyed"

\* C18: getJWTSecret is JWT_SECRET when the variable is set and the
\* fallback default when it is not, and is never empty; every token login
\* issued is signed with this value, and a verification finds the
\* signature of a token good exactly when it was made with this value.
SecretSource ==
    LET configured == IF jwtEnv # "" THEN jwtEnv ELSE DefaultJWTSecret
    IN  /\ getJWTSecret = configured
        /\ getJWTSecret # ""
        /\ \A i \in issued : i.token.sig.key = configured
        /\ (last.route = "GET /api/profile" /\ last.auth.present
              /\ last.auth.token.parts = 3)
           => (last.authErr = "InvalidSignature"
                 <=> last.auth.token.sig
                        # Sign(last.auth.token.sub, last.auth.token.iat,
                               last.auth.token.exp, configured))

\* With JWT_SECRET set, a login issued a token and a profile request with
\* it was accepted.
SecretSourceWitness ==
    /\ jwtEnv = "configured-secret"
    /\ \E i \in issued :
          /\ last.route = "GET /api/profile" /\ last.auth = Bearer(i.token)
          /\ last.status = 200

\* C19: checkPassword returns a boolean for every plaintext and every
\* credential, false for a credential that is empty or malformed, and true
\* only for a credential that hashPassword returns for that plaintext
\* under some salt.
CheckPasswordTotal ==
    ck.called
    => /\ ck.result \in BOOLEAN
       /\ ck.hash \in MalformedCredentials => ~ck.result
       /\ ck.result
             => \E salt \in 1..MaxSalts :
                   hashPassword(ck.plain, salt, TRUE)
                      = [hash |-> ck.hash, err |-> "nil"]

\* C20: a register request during which hashPassword returns an error
\* (the password is past bcrypt's limit, or crypto/rand fails) is answered
\* 500 "Failed to hash password"; no second hash is made and no user is
\* created.
HashingFailureFatal ==
    [][\A r \in RegisterRequests :
          (/\ Register(r.username, r.email, r.password, r.randOK)
           /\ BindRegister(r.username, r.email, r.password)
           /\ ~DuplicateOf(r)
           /\ hashPassword(r.password, rng + 1, r.randOK).err # "nil")
          => /\ last'.status = 500
             /\ last'.body = ErrorBody("Failed to hash password")
             /\ rng' = rng
             /\ UNCHANGED dbVars]_vars

\* A registration with a 73-byte password was answered 500 while another
\* user was persisted.
HashingFailureFatalWitness ==
    /\ last.route = "POST /api/register" /\ last.password = Password73
    /\ last.status = 500
    /\ last.body = ErrorBody("Failed to hash password")
    /\ users # {}

\* C21: generateToken fails with SigningFailure when the secret is empty
\* or the signer fails, and a login whose password was accepted and whose
\* generateToken call fails is answered 500 "Failed to generate token"
\* without a token; no token is issued by a second call and nothing is
\* stored.
SigningFailureSurfaced ==
    /\ [](\A uid \in 1..2, signerOK \in BOOLEAN :
             generateToken(uid, getJWTSecret, now, signerOK).err
                = (IF getJWTSecret = "" \/ ~signerOK
                   THEN "SigningFailure" ELSE "nil"))
    /\ [](generateToken(1, "", now, TRUE).err = "SigningFailure")
    /\ [][\A u \in LoginUsernames, p \in LoginPasswords :
             (/\ last'.route = "POST /api/login"
              /\ last'.username = u /\ last'.password = p
              /\ BindLogin(u, p)
              /\ \E x \in users : /\ x.Username = u
                                  /\ checkPassword(p, x.Password)
              /\ Login(u, p, FALSE))
             => /\ last'.status = 500
                /\ last'.body = ErrorBody("Failed to generate token")
                /\ last'.token = NoToken
                /\ issued' = issued
                /\ UNCHANGED dbVars]_vars

\* bob logged in with his password while the signer failed and was
\* answered 500.
SigningFailureSurfacedWitness ==
    /\ last.route = "POST /api/login" /\ last.username = "bob"
    /\ last.password = Rep(CharB, MinPasswordLen)
    /\ last.status = 500
    /\ last.body = ErrorBody("Failed to generate token")

\* The request satisfies the three rules of the claim.
ValidRegistration(r) ==
    /\ RuneCount(r.username) >= 3
    /\ IsEmail(r.email)
    /\ PasswordRunes(r.password) >= 6

\* C22: a register request whose username has fewer than 3 characters,
\* whose email is not well formed or whose password has fewer than 6
\* characters is answered 400 without a hashPassword call and without a
\* new user; every persisted user satisfies the three rules; and no
\* hashPassword call made by register has an empty plaintext.
RegistrationValidation ==
    /\ [][\A r \in RegisterRequests :
             (/\ last'.route = "POST /api/register"
              /\ last'.username = r.username /\ last'.password = r.password
              /\ ~ValidRegistration(r)
              /\ Register(r.username, r.email, r.password, r.randOK))
             => /\ last'.status = 400
                /\ UNCHANGED <<dbVars, rng, hp>>]_vars
    /\ [](\A u \in users :
             ValidRegistration([username |-> u.Username, email |-> u.Email,
                                password |-> regPlain[u.ID]]))
    /\ [](hp.err # "none" => hp.plain # EmptyString)

\* A request whose password has six bytes but three characters was
\* answered 400 after another registration had called hashPassword.
RegistrationValidationWitness ==
    /\ last.route = "POST /api/register"
    /\ last.password = EAcute \o EAcute \o EAcute
    /\ last.status = 400
    /\ hp.err = "nil" /\ users # {}

\* What the client of user uid knows of its tasks that it has not deleted.
LedgerOf(uid) == {e \in ledger : e.owner = uid}

\* The task row t shows what the client knows as e.
Shows(t, e) ==
    /\ t.ID = e.id
    /\ t.UserID = e.owner
    /\ t.Title = e.title
    /\ t.Description = e.description

\* C23: after any sequence of create, update and delete requests by alice
\* and bob, a GET /api/tasks of a user returns exactly the tasks that this
\* user created and has not deleted, one entry for each, with the title
\* and the description of its latest successful update; and a task that
\* GET /api/tasks/:id returns is one its owner created and has not deleted.
TaskListCorrect ==
    /\ (last.route = "GET /api/tasks" /\ last.status = 200)
          => LET list == last.body.tasks
                 mine == LedgerOf(last.uid)
             IN  /\ Len(list) = Cardinality(mine)
                 /\ \A e \in mine : \E i \in 1..Len(list) : Shows(list[i], e)
                 /\ \A i \in 1..Len(list) : \E e \in mine : Shows(list[i], e)
    /\ (last.route = "GET /api/tasks/:id" /\ last.status = 200)
          => \E e \in LedgerOf(last.uid) :
                /\ e.id = ScanTaskID(last.param).id
                /\ Shows(last.body.tasks[1], e)

\* Two tasks were created and one of them deleted; the user's list has the
\* other one, as its update left it.
TaskListCorrectWitness ==
    /\ last.route = "GET /api/tasks" /\ last.status = 200
    /\ taskSeq = 3 /\ Cardinality(tasks) = 1
    /\ Len(last.body.tasks) = 1
    /\ last.body.tasks[1].Title = "t2"
    /\ last.body.tasks[1].UpdatedAt > last.body.tasks[1].CreatedAt

\* C24: the list of GET /api/tasks is in the order of creation, newest
\* first: of any two tasks in it the one created later (the one with the
\* higher id) comes first, an order that no update changes since an update
\* leaves ID and CreatedAt as they are.
TaskOrdering ==
    (last.route = "GET /api/tasks" /\ last.status = 200)
       => \A i, j \in 1..Len(last.body.tasks) :
             i < j => last.body.tasks[i].ID > last.body.tasks[j].ID

\* The last response is a list that shows a task as completed.
ListedCompleted ==
    /\ last.route = "GET /api/tasks" /\ last.status = 200
    /\ \E i \in 1..Len(last.body.tasks) :
          /\ last.body.tasks[i].Completed
          /\ \E t \in tasks : t.ID = last.body.tasks[i].ID /\ t.Completed

\* C25: a user can mark a task as complete: when clients that have tasks
\* keep sending updates with completed = true and keep reading their
\* lists, a list eventually shows a task whose stored flag is true.
TaskCompletable == ([]<>(tasks # {})) => <>ListedCompleted

\* C29: an updateTask answered 200 replaces the task of the given id by a
\* row with the body's Title and Description and the time as UpdatedAt,
\* with ID, UserID, Completed and CreatedAt as they were, and leaves every
\* other task, the users and the sequences unchanged; an updateTask with
\* any other answer (invalid id, invalid body, no such task of the caller)
\* changes nothing.
UpdateTaskFrame ==
    [][\A a \in TaskAuthInputs, id \in TaskIDInputs, b \in TaskBodies :
          (/\ last'.route = "PUT /api/tasks/:id"
           /\ last'.auth = a /\ last'.param = id
           /\ last'.title = b.title /\ last'.completed = b.completed
           /\ UpdateTask(a, id, b))
          => IF last'.status = 200
             THEN \E old \in tasks, new \in tasks' :
                     /\ old.ID = ScanTaskID(id).id
                     /\ new.ID = old.ID
                     /\ new.UserID = old.UserID
                     /\ new.Completed = old.Completed
                     /\ new.CreatedAt = old.CreatedAt
                     /\ new.Title = b.title
                     /\ new.Description = b.description
                     /\ new.UpdatedAt = now
                     /\ tasks' \ {new} = tasks \ {old}
                     /\ UNCHANGED <<users, userSeq, regPlain, taskSeq>>
             ELSE /\ last'.status \in {400, 401, 404}
                  /\ UNCHANGED dbVars]_vars

\* An update whose body asks for a completion and another owner was
\* answered 200 while the other user had a task as well, and the updated
\* task is still the caller's and not completed.
UpdateTaskFrameWitness ==
    /\ last.route = "PUT /api/tasks/:id" /\ last.status = 200
    /\ last.completed /\ last.user_id # last.uid
    /\ \E t \in tasks : /\ t.ID = ScanTaskID(last.param).id
                        /\ t.UserID = last.uid /\ ~t.Completed
                        /\ t.UpdatedAt > t.CreatedAt
    /\ \E t \in tasks : t.UserID # last.uid

\* C30: a createTask answered 201 adds exactly one task, owned by the user
\* to whom the request's token was issued and not completed, whatever
\* completed and user_id the body carries; a createTask whose body has no
\* title is answered 400 once it has passed the gate and adds no task; and
\* no stored task is completed.
CreateTaskOwnership ==
    /\ [][\A a \in TaskAuthInputs, b \in TaskBodies :
             (/\ last'.route = "POST /api/tasks"
              /\ last'.auth = a
              /\ last'.title = b.title /\ last'.completed = b.completed
              /\ CreateTask(a, b))
             => /\ last'.status = 201
                   => \E t \in tasks' \ tasks :
                         /\ tasks' = tasks \cup {t}
                         /\ \E i \in issued : /\ i.token = a.token
                                              /\ i.owner = t.UserID
                         /\ ~t.Completed
                         /\ t.Title = b.title
                         /\ last'.body.tasks = <<t>>
                /\ last'.status # 201 => UNCHANGED dbVars
                /\ b.title = ""
                   => /\ last'.status # 201
                      /\ last'.ran => last'.status = 400]_vars
    /\ [](\A t \in tasks : ~t.Completed /\ t.UserID \in {u.ID : u \in users})

\* alice created a task with a body that asked for bob as the owner and
\* for a completed task; the task is hers and not completed.
CreateTaskOwnershipWitness ==
    /\ last.route = "POST /api/tasks" /\ last.status = 201
    /\ last.completed /\ last.user_id = Bob.ID
    /\ last.uid = Alice.ID
    /\ \E t \in tasks : /\ t.ID = last.body.tasks[1].ID
                        /\ t.UserID = Alice.ID /\ ~t.Completed

\* C27: whenever the handler of one of the six protected routes has run,
\* the user id it read from the context is the one that the verification
\* of the request's token returned at the time of the request, and it is
\* not the zero default.
IdentitySet ==
    (last.ran /\ last.route \in GatedRoutes)
       => LET v == validateToken(last.auth.token, getJWTSecret, last.at)
          IN  /\ last.auth.present
              /\ v.err = "nil"
              /\ last.uid = v.userID
              /\ last.uid # 0

\* bob's delete of a task ran with bob's id while alice holds a token too.
IdentitySetWitness ==
    /\ last.ran /\ last.route = "DELETE /api/tasks/:id"
    /\ last.uid = Bob.ID
    /\ \E i \in issued : i.owner = Alice.ID

\* C28: a login with a username that no user has and a login with the
\* username of a user and a password other than the user's get the same
\* response, 401 with the body "Invalid credentials" and no token.
NoUsernameEnumeration ==
    (/\ last.route = "POST /api/login"
     /\ BindLogin(last.username, last.password)
     /\ \A u \in users :
           u.Username = last.username => last.password # regPlain[u.ID])
    => ClientView(last) = [status |-> 401,
                           body |-> ErrorBody("Invalid credentials"),
                           token |-> NoToken]

\* C26: under every interleaving of the steps of concurrent register
\* requests no two persisted users share a username and no two share an
\* email; a user is created only by a request that ends in 201, for a
\* username and an email that no persisted user has; and a request that
\* passed validation and ends otherwise ends in 409 or 500 and creates no
\* user.
UniqueUnderConcurrency ==
    /\ [](\A u, v \in users :
             u # v => (u.Username # v.Username /\ u.Email # v.Email))
    /\ [](\A a, b \in Threads :
             (/\ a # b
              /\ calls[a].pc = "done" /\ calls[a].status = 201
              /\ calls[b].pc = "done" /\ calls[b].status = 201)
             => /\ calls[a].username # calls[b].username
                /\ calls[a].email # calls[b].email)
    /\ [][\A th \in Threads :
             (calls[th].pc \notin {"idle", "done"} /\ calls'[th].pc = "done")
             => \/ /\ calls'[th].status = 201
                   /\ \E u \in users' \ users :
                         /\ users' = users \cup {u}
                         /\ u.Username = calls[th].username
                         /\ u.Email = calls[th].email
                         /\ \A v \in users : /\ v.Username # u.Username
                                             /\ v.Email # u.Email
                \/ /\ calls'[th].status \in {409, 500}
                   /\ users' = users]_vars
    /\ [][users' # users
             => \E th \in Threads : /\ calls[th].pc = "create"
                                    /\ calls'[th].status = 201]_vars

\* Two requests with the same username passed both checks before either
\* inserted: one ended in 201 and the other in 500 at the insert, and one
\* user has the username.
UniqueUnderConcurrencyWitness ==
    \E a, b \in Threads :
       /\ a # b
       /\ calls[a].pc = "done" /\ calls[a].status = 201
       /\ calls[b].pc = "done" /\ calls[b].status = 500
       /\ calls[b].error = "Failed to create user"
       /\ calls[a].username = calls[b].username
       /\ Cardinality({u \in users : u.Username = calls[a].username}) = 1

===========================================================================
